---------------------------- MODULE Spec2Model ----------------------------
(***************************************************************************)
(* Model of the NEON JSON structural indexer (src/neon/neon_json.c).       *)
(*                                                                         *)
(* A uint64_t bit mask is the set of its set bit indices, a subset of      *)
(* 0..63 (bit k <-> byte k of the chunk, LSB first).  Arithmetic on masks  *)
(* (subtraction, carry-less multiply, shifts) is modelled bit by bit.      *)
(* Input memory is a sequence of bytes; input[k] of the C code is          *)
(* input[k + 1] here.  Output arrays are functions from the 0-based        *)
(* indices written so far to the values written.                           *)
(***************************************************************************)
EXTENDS Integers, Sequences, FiniteSets, TLC

VARIABLES
    ctx,          \* the NeonContext: quote_bits, string_mask, buffer_capacity
    args,         \* arguments of the current neon_json_find_structural call
    input,        \* the bytes behind the input pointer
    pc,           \* position inside neon_json_find_structural
    loc,          \* its local variables
    positions,    \* caller's positions array: index -> value written
    characters,   \* caller's characters array: index -> value written
    ret,          \* return value of the last call
    loads,        \* <<lo, hi>>: input offsets lo..hi-1 read by the last step
    cls           \* the last neon_json_classify call: arguments, output, result

vars == <<ctx, args, input, pc, loc, positions, characters, ret, loads, cls>>

-----------------------------------------------------------------------------
(* Byte values the code compares against.                                  *)

CH_QUOTE         == 34
CH_BACKSLASH     == 92
CH_BRACE_OPEN    == 123
CH_BRACE_CLOSE   == 125
CH_BRACKET_OPEN  == 91
CH_BRACKET_CLOSE == 93
CH_COLON         == 58
CH_COMMA         == 44

CHUNK == 64

-----------------------------------------------------------------------------
(* 64-bit masks as sets of bit indices.                                    *)

Bits64 == 0 .. 63

\* 1ULL << n
Bit(n) == {n}

\* a << n and a >> n on uint64_t
Shl64(a, n) == {k + n : k \in {j \in a : j + n <= 63}}
Shr64(a, n) == {k - n : k \in {j \in a : j >= n}}

\* ~a
Not64(a) == Bits64 \ a

\* a - b modulo 2^64, by ripple borrow: the borrow into bit k is set iff some
\* lower bit j generated a borrow (b has it, a has not) and no bit between
\* j and k absorbed it (a has it, b has not).
Sub64(a, b) ==
    LET borrow(k) == \E j \in 0 .. (k - 1) :
                        /\ j \in b /\ j \notin a
                        /\ \A l \in (j + 1) .. (k - 1) : ~(l \in a /\ l \notin b)
    IN  {k \in Bits64 : ((k \in a) # (k \in b)) # borrow(k)}

\* __builtin_ctzll (defined for a nonzero argument only)
ctzll(a) == CHOOSE k \in a : \A j \in a : k <= j

\* __builtin_parityll
parityll(a) == Cardinality(a) % 2

-----------------------------------------------------------------------------
(* NEON intrinsics on 16-byte vectors (functions 0..15 -> 0..255).         *)

Lanes == 0 .. 15

\* 2^n for n in 0..15
Pow2(n) == <<1, 2, 4, 8, 16, 32, 64, 128, 256, 512, 1024, 2048, 4096, 8192,
             16384, 32768>>[n + 1]

TestBit(x, b) == (x \div Pow2(b)) % 2 = 1

\* a byte as the set of its set bits, and back
BitsOf == [x \in 0 .. 255 |-> {b \in 0 .. 7 : TestBit(x, b)}]

ByteOfBits ==
    [S \in SUBSET (0 .. 7) |->
        (IF 0 \in S THEN 1 ELSE 0) + (IF 1 \in S THEN 2 ELSE 0)
      + (IF 2 \in S THEN 4 ELSE 0) + (IF 3 \in S THEN 8 ELSE 0)
      + (IF 4 \in S THEN 16 ELSE 0) + (IF 5 \in S THEN 32 ELSE 0)
      + (IF 6 \in S THEN 64 ELSE 0) + (IF 7 \in S THEN 128 ELSE 0)]

ByteAnd(x, y) == ByteOfBits[BitsOf[x] \cap BitsOf[y]]
ByteOr(x, y)  == ByteOfBits[BitsOf[x] \cup BitsOf[y]]

vdupq_n_u8(c)   == [k \in Lanes |-> c]
vld1q_u8(mem, off) == [k \in Lanes |-> mem[off + k + 1]]
vceqq_u8(a, b)  == [k \in Lanes |-> IF a[k] = b[k] THEN 255 ELSE 0]
vorrq_u8(a, b)  == [k \in Lanes |-> ByteOr(a[k], b[k])]
vandq_u8(a, b)  == [k \in Lanes |-> ByteAnd(a[k], b[k])]
\* pairwise add of adjacent lanes of the concatenation of a and b
vpaddq_u8(a, b) ==
    [k \in Lanes |-> LET src == IF k < 8 THEN a ELSE b
                         j   == IF k < 8 THEN 2 * k ELSE 2 * (k - 8)
                     IN  (src[j] + src[j + 1]) % 256]

\* vgetq_lane_u16(vreinterpretq_u16_u8(v), 0): little-endian bytes 0 and 1
vgetq_lane_u16_0(v) == v[0] + 256 * v[1]

shift_vals == [k \in Lanes |-> Pow2(k % 8)]

neon_movemask_16(v) ==
    LET masked  == vandq_u8(v, shift_vals)
        paired1 == vpaddq_u8(masked, masked)
        paired2 == vpaddq_u8(paired1, paired1)
        paired3 == vpaddq_u8(paired2, paired2)
    IN  vgetq_lane_u16_0(paired3)

\* (uint64_t)m << sh for a 16-bit m
Widen16(m, sh) == {b + sh : b \in {c \in Lanes : TestBit(m, c)}}

\* The three masks of the 64 bytes at offset base of mem.
classify_chunk_64(mem, base) ==
    LET lane(i) ==
          LET chunk        == vld1q_u8(mem, base + i * 16)
              is_quote     == vceqq_u8(chunk, vdupq_n_u8(CH_QUOTE))
              is_backslash == vceqq_u8(chunk, vdupq_n_u8(CH_BACKSLASH))
              is_brace_o   == vceqq_u8(chunk, vdupq_n_u8(CH_BRACE_OPEN))
              is_brace_c   == vceqq_u8(chunk, vdupq_n_u8(CH_BRACE_CLOSE))
              is_brack_o   == vceqq_u8(chunk, vdupq_n_u8(CH_BRACKET_OPEN))
              is_brack_c   == vceqq_u8(chunk, vdupq_n_u8(CH_BRACKET_CLOSE))
              is_colon     == vceqq_u8(chunk, vdupq_n_u8(CH_COLON))
              is_comma     == vceqq_u8(chunk, vdupq_n_u8(CH_COMMA))
              struct_mask  ==
                  vorrq_u8(vorrq_u8(vorrq_u8(vorrq_u8(vorrq_u8(vorrq_u8(
                      is_brace_o, is_brace_c), is_brack_o), is_brack_c),
                      is_colon), is_comma), is_quote)
          IN  [structural  |-> Widen16(neon_movemask_16(struct_mask), i * 16),
               quotes      |-> Widen16(neon_movemask_16(is_quote), i * 16),
               backslashes |-> Widen16(neon_movemask_16(is_backslash), i * 16)]
    \* for (int i = 0; i < 4; i++): the lane masks are OR-ed together
    IN  [structural  |-> UNION {lane(i).structural : i \in 0 .. 3},
         quotes      |-> UNION {lane(i).quotes : i \in 0 .. 3},
         backslashes |-> UNION {lane(i).backslashes : i \in 0 .. 3}]

\* vmull_p64: carry-less product of two 64-bit polynomials (128 bits)
vmull_p64(a, b) ==
    {k \in 0 .. 127 : Cardinality({i \in a : (k - i) \in b}) % 2 = 1}

\* low 64 bits of mask (x) 0xFFFFFFFFFFFFFFFF
prefix_xor(mask) == vmull_p64(mask, Bits64) \cap Bits64


-----------------------------------------------------------------------------
(* neon_json_find_structural as a machine.  A machine value m holds the    *)
(* position in the function (pc), its locals (loc), the two output arrays, *)
(* the return value and the input offsets read by the step just taken.     *)
(* a is the argument record, mem the bytes behind the input pointer.       *)

Store(arr, idx, v) ==
    [k \in (DOMAIN arr) \cup {idx} |-> IF k = idx THEN v ELSE arr[k]]

NoLoad == <<0, 0>>

\* size_t count = 0; uint64_t prev_string_state = 0; size_t i = 0;
InitLoc ==
    [i |-> 0, count |-> 0, prev_string_state |-> 0,
     structural |-> {}, quotes |-> {}, backslashes |-> {},
     seq |-> {}, odd_ends |-> {},
     unescaped_quotes |-> {}, string_mask |-> {}, filtered |-> {},
     in_string |-> 0, prev_backslash |-> 0]

\* The argument check without the test of characters.
BadArgs_no_characters(a) ==
    \/ a.ctx_null
    \/ a.input_null
    \/ a.input_len = 0
    \/ a.positions_null

\* !ctx || !input || input_len == 0 || !positions || !characters
BadArgs(a) ==
    \/ a.ctx_null
    \/ a.input_null
    \/ a.input_len = 0
    \/ a.positions_null
    \/ a.characters_null

\* ensure_buffers without the early return: the buffers are always
\* reallocated to the size of the current input.
ensure_buffers_always_realloc(c, input_len) ==
    LET num_chunks == (input_len + 63) \div 64
    IN  [quote_bits      |-> num_chunks,
         string_mask     |-> num_chunks,
         buffer_capacity |-> num_chunks]

\* ensure_buffers: the context after the call (malloc of n words modelled
\* as a buffer of n words).
ensure_buffers(c, input_len) ==
    LET num_chunks == (input_len + 63) \div 64
    IN  IF c.buffer_capacity >= num_chunks THEN c
        ELSE [quote_bits      |-> num_chunks,
              string_mask     |-> num_chunks,
              buffer_capacity |-> num_chunks]

\* The inner loop of find_odd_backslash_sequences:
\*   while (temp & 1) { count++; temp >>= 1; }
RECURSIVE count_ones(_, _)
count_ones(temp, count) ==
    IF 0 \in temp THEN count_ones(Shr64(temp, 1), count + 1) ELSE count

\* Lines 219-234: from the odd-backslash mask to the filtered mask of the chunk.
mask_chunk(m, odd_bs) ==
    LET escaped_quotes   == m.loc.quotes \cap Shl64(odd_bs, 1)
        unescaped_quotes == m.loc.quotes \cap Not64(escaped_quotes)
        string_mask0     == prefix_xor(unescaped_quotes)
        string_mask      == IF m.loc.prev_string_state # 0
                            THEN Not64(string_mask0) ELSE string_mask0
        filtered         == (m.loc.structural \cap Not64(string_mask))
                            \cup unescaped_quotes
    IN  [m EXCEPT !.pc = "extract",
                  !.loc.unescaped_quotes  = unescaped_quotes,
                  !.loc.string_mask       = string_mask,
                  !.loc.prev_string_state = parityll(unescaped_quotes),
                  !.loc.filtered          = filtered,
                  !.loads                 = NoLoad]

\* Head of the chunk loop (line 213), classify_chunk_64 and the entry of
\* find_odd_backslash_sequences (lines 162-176); on exit, lines 247-248.
chunk_loop(m, a, mem) ==
    IF m.loc.i + 64 <= a.input_len /\ m.loc.count < a.max_output
    THEN LET c  == classify_chunk_64(mem, m.loc.i)
             m1 == [m EXCEPT !.loc.structural  = c.structural,
                             !.loc.quotes      = c.quotes,
                             !.loc.backslashes = c.backslashes,
                             !.loc.seq         = c.backslashes,
                             !.loc.odd_ends    = {}]
         IN  IF c.backslashes = {}
             THEN [mask_chunk(m1, {}) EXCEPT !.loads = <<m.loc.i, m.loc.i + 64>>]
             ELSE [m1 EXCEPT !.pc = "odd_bs",
                             !.loads = <<m.loc.i, m.loc.i + 64>>]
    ELSE [m EXCEPT !.pc = "tail",
                   !.loc.in_string = m.loc.prev_string_state,
                   !.loc.prev_backslash = 0,
                   !.loads = NoLoad]

\* The run enumeration with the bit just above the run subtracted
\* (1ULL << (pos + count)) instead of the run's top bit.
odd_bs_loop_above_run(m) ==
    IF m.loc.seq # {}
    THEN LET pos   == ctzll(m.loc.seq)
             count == count_ones(Shr64(m.loc.seq, pos), 0)
             top   == Bit(pos + count - 1)
             above == IF pos + count <= 63 THEN Bit(pos + count) ELSE {}
         IN  [m EXCEPT !.loc.odd_ends = IF count % 2 = 1 THEN @ \cup top ELSE @,
                       !.loc.seq      = @ \cap Sub64(@, above),
                       !.loads        = NoLoad]
    ELSE mask_chunk(m, m.loc.odd_ends)

\* One test of while (seq) in find_odd_backslash_sequences (lines 177-191).
odd_bs_loop(m) ==
    IF m.loc.seq # {}
    THEN LET pos   == ctzll(m.loc.seq)
             count == count_ones(Shr64(m.loc.seq, pos), 0)
             top   == Bit(pos + count - 1)
         IN  [m EXCEPT !.loc.odd_ends = IF count % 2 = 1 THEN @ \cup top ELSE @,
                       !.loc.seq      = @ \cap Sub64(@, top),
                       !.loads        = NoLoad]
    ELSE mask_chunk(m, m.loc.odd_ends)

\* The extraction loop taking the highest set bit first.
extract_loop_highest_first(m, a, mem) ==
    IF m.loc.filtered # {} /\ m.loc.count < a.max_output
    THEN LET pos == CHOOSE k \in m.loc.filtered : \A j \in m.loc.filtered : j <= k
         IN  [m EXCEPT !.positions    = Store(@, m.loc.count, m.loc.i + pos),
                       !.characters   = Store(@, m.loc.count, mem[m.loc.i + pos + 1]),
                       !.loc.count    = @ + 1,
                       !.loc.filtered = @ \ {pos},
                       !.loads        = <<m.loc.i + pos, m.loc.i + pos + 1>>]
    ELSE [m EXCEPT !.pc = "chunk_loop", !.loc.i = @ + 64, !.loads = NoLoad]

\* The extraction loop reading the character at the chunk-relative offset
\* (input[pos] instead of input[i + pos]).
extract_loop_relative_char(m, a, mem) ==
    IF m.loc.filtered # {} /\ m.loc.count < a.max_output
    THEN LET pos == ctzll(m.loc.filtered)
         IN  [m EXCEPT !.positions    = Store(@, m.loc.count, m.loc.i + pos),
                       !.characters   = Store(@, m.loc.count, mem[pos + 1]),
                       !.loc.count    = @ + 1,
                       !.loc.filtered = @ \cap Sub64(@, Bit(0)),
                       !.loads        = <<pos, pos + 1>>]
    ELSE [m EXCEPT !.pc = "chunk_loop", !.loc.i = @ + 64, !.loads = NoLoad]

\* The extraction loop without the capacity test.
extract_loop_no_capacity_test(m, a, mem) ==
    IF m.loc.filtered # {}
    THEN LET pos == ctzll(m.loc.filtered)
         IN  [m EXCEPT !.positions    = Store(@, m.loc.count, m.loc.i + pos),
                       !.characters   = Store(@, m.loc.count, mem[m.loc.i + pos + 1]),
                       !.loc.count    = @ + 1,
                       !.loc.filtered = @ \cap Sub64(@, Bit(0)),
                       !.loads        = <<m.loc.i + pos, m.loc.i + pos + 1>>]
    ELSE [m EXCEPT !.pc = "chunk_loop", !.loc.i = @ + 64, !.loads = NoLoad]

\* One test of while (filtered && count < max_output) (lines 237-243);
\* on exit the i += 64 of the chunk loop.
extract_loop(m, a, mem) ==
    IF m.loc.filtered # {} /\ m.loc.count < a.max_output
    THEN LET pos == ctzll(m.loc.filtered)
         IN  [m EXCEPT !.positions    = Store(@, m.loc.count, m.loc.i + pos),
                       !.characters   = Store(@, m.loc.count, mem[m.loc.i + pos + 1]),
                       !.loc.count    = @ + 1,
                       !.loc.filtered = @ \cap Sub64(@, Bit(0)),
                       !.loads        = <<m.loc.i + pos, m.loc.i + pos + 1>>]
    ELSE [m EXCEPT !.pc = "chunk_loop", !.loc.i = @ + 64, !.loads = NoLoad]

\* The tail's test with the colon left out.
IsStructuralByte_no_colon(ch) ==
    \/ ch = CH_BRACE_OPEN   \/ ch = CH_BRACE_CLOSE
    \/ ch = CH_BRACKET_OPEN \/ ch = CH_BRACKET_CLOSE
    \/ ch = CH_COMMA

IsStructuralByte(ch) ==
    \/ ch = CH_BRACE_OPEN   \/ ch = CH_BRACE_CLOSE
    \/ ch = CH_BRACKET_OPEN \/ ch = CH_BRACKET_CLOSE
    \/ ch = CH_COLON        \/ ch = CH_COMMA

\* The scalar loop with the test i <= input_len: its last turn reads the
\* byte one past the end of the input (taken to be 0 here).
tail_loop_inclusive_bound(m, a, mem) ==
    IF m.loc.i <= a.input_len /\ m.loc.count < a.max_output
    THEN LET ch   == IF m.loc.i < Len(mem) THEN mem[m.loc.i + 1] ELSE 0
             emit == [m EXCEPT !.positions  = Store(@, m.loc.count, m.loc.i),
                               !.characters = Store(@, m.loc.count, ch),
                               !.loc.count  = @ + 1]
             m1   == IF ch = CH_BACKSLASH /\ m.loc.prev_backslash = 0
                     THEN [m EXCEPT !.loc.prev_backslash = 1]
                     ELSE IF ch = CH_QUOTE /\ m.loc.prev_backslash = 0
                     THEN [emit EXCEPT !.loc.in_string = 1 - @,
                                       !.loc.prev_backslash = 0]
                     ELSE IF /\ m.loc.in_string = 0
                             /\ m.loc.prev_backslash = 0
                             /\ IsStructuralByte(ch)
                     THEN [emit EXCEPT !.loc.prev_backslash = 0]
                     ELSE [m EXCEPT !.loc.prev_backslash = 0]
         IN  [m1 EXCEPT !.loc.i = @ + 1, !.loads = <<m.loc.i, m.loc.i + 1>>]
    ELSE [m EXCEPT !.pc = "done", !.ret = m.loc.count, !.loads = NoLoad]

\* One test of the scalar loop (lines 249-272); on exit, the return.
tail_loop(m, a, mem) ==
    IF m.loc.i < a.input_len /\ m.loc.count < a.max_output
    THEN LET ch   == mem[m.loc.i + 1]
             emit == [m EXCEPT !.positions  = Store(@, m.loc.count, m.loc.i),
                               !.characters = Store(@, m.loc.count, ch),
                               !.loc.count  = @ + 1]
             m1   == IF ch = CH_BACKSLASH /\ m.loc.prev_backslash = 0
                     THEN [m EXCEPT !.loc.prev_backslash = 1]
                     ELSE IF ch = CH_QUOTE /\ m.loc.prev_backslash = 0
                     THEN [emit EXCEPT !.loc.in_string = 1 - @,
                                       !.loc.prev_backslash = 0]
                     ELSE IF /\ m.loc.in_string = 0
                             /\ m.loc.prev_backslash = 0
                             /\ IsStructuralByte(ch)
                     THEN [emit EXCEPT !.loc.prev_backslash = 0]
                     ELSE [m EXCEPT !.loc.prev_backslash = 0]
         IN  [m1 EXCEPT !.loc.i = @ + 1, !.loads = <<m.loc.i, m.loc.i + 1>>]
    ELSE [m EXCEPT !.pc = "done", !.ret = m.loc.count, !.loads = NoLoad]

\* The machine right after the argument check and ensure_buffers.
entry ==
    [pc |-> "chunk_loop", loc |-> InitLoc, positions |-> <<>>,
     characters |-> <<>>, ret |-> 0, loads |-> NoLoad]

step(m, a, mem) ==
    IF m.pc = "chunk_loop" THEN chunk_loop(m, a, mem)
    ELSE IF m.pc = "odd_bs" THEN odd_bs_loop(m)
    ELSE IF m.pc = "extract" THEN extract_loop(m, a, mem)
    ELSE tail_loop(m, a, mem)

\* The call run to its return.
RECURSIVE run(_, _, _)
run(m, a, mem) == IF m.pc = "done" THEN m ELSE run(step(m, a, mem), a, mem)


-----------------------------------------------------------------------------
(* neon_json_classify.                                                     *)

\* The rows of the table, 16 entries each, as written in the source.
LOOKUP_00 == <<9, 9, 9, 9, 9, 9, 9, 9, 9, 0, 0, 9, 9, 0, 9, 9>>
LOOKUP_10 == <<9, 9, 9, 9, 9, 9, 9, 9, 9, 9, 9, 9, 9, 9, 9, 9>>
LOOKUP_20 == <<0, 9, 5, 9, 9, 9, 9, 9, 9, 9, 9, 9, 7, 9, 9, 9>>
LOOKUP_30 == <<9, 9, 9, 9, 9, 9, 9, 9, 9, 9, 6, 9, 9, 9, 9, 9>>
LOOKUP_40 == <<9, 9, 9, 9, 9, 9, 9, 9, 9, 9, 9, 9, 9, 9, 9, 9>>
LOOKUP_50 == <<9, 9, 9, 9, 9, 9, 9, 9, 9, 9, 9, 3, 8, 4, 9, 9>>
LOOKUP_60 == <<9, 9, 9, 9, 9, 9, 9, 9, 9, 9, 9, 9, 9, 9, 9, 9>>
LOOKUP_70 == <<9, 9, 9, 9, 9, 9, 9, 9, 9, 9, 9, 1, 9, 2, 9, 9>>
LOOKUP_80 == [k \in 1 .. 128 |-> 9]

\* A table that also takes vertical tab (0x0B) and form feed (0x0C) for
\* whitespace.
LOOKUP_vt_ff ==
    <<9, 9, 9, 9, 9, 9, 9, 9, 9, 0, 0, 0, 0, 0, 9, 9>>
    \o LOOKUP_10 \o LOOKUP_20 \o LOOKUP_30 \o LOOKUP_40 \o LOOKUP_50
    \o LOOKUP_60 \o LOOKUP_70 \o LOOKUP_80

\* static const uint8_t LOOKUP[256]; LOOKUP[b] of the C code is LOOKUP[b + 1]
LOOKUP ==
    LOOKUP_00 \o LOOKUP_10 \o LOOKUP_20 \o LOOKUP_30 \o LOOKUP_40 \o LOOKUP_50
    \o LOOKUP_60 \o LOOKUP_70 \o LOOKUP_80

\* The result of neon_json_classify: its return value and the entries of
\* output it wrote.
neon_json_classify(mem, input_null, output_null, len) ==
    IF input_null \/ output_null \/ len = 0
    THEN [ret |-> -1, output |-> <<>>]
    ELSE [ret |-> 0, output |-> [i \in 0 .. (len - 1) |-> LOOKUP[mem[i + 1] + 1]]]

-----------------------------------------------------------------------------
(* The calls the model makes.                                              *)

MaxWord     == 2    \* longest word placed at a chunk boundary
MaxOutSmall == 1    \* max_output ranges over 0..MaxOutSmall and input_len

CH_OTHER == 97      \* 'a', a byte that belongs to no mask

Sigma == {CH_QUOTE, CH_BACKSLASH, CH_BRACE_OPEN, CH_OTHER}

Pad(n) == [k \in 1 .. n |-> CH_OTHER]
Fill(c, n) == [k \in 1 .. n |-> c]

Words == UNION {[1 .. n -> Sigma] : n \in 0 .. MaxWord}

Heads == {<<>>, <<CH_QUOTE>>}

\* <<padding before the word, padding after it>>
PadPairs == {<<0, 0>>, <<CHUNK - 1, 0>>, <<CHUNK - 1, CHUNK>>,
             <<2 * CHUNK - 1, 0>>}

\* one byte of each kind the code tells apart, at the last byte of a chunk
\* and at the first byte of the tail
Singles ==
    {Pad(k) \o <<c>> : k \in {CHUNK - 1, CHUNK},
                       c \in {CH_BRACE_CLOSE, CH_BRACKET_OPEN, CH_BRACKET_CLOSE,
                              CH_COLON, CH_COMMA}}

\* a chunk made only of backslashes or only of quotes, with and without a tail
Fills == {Fill(c, n) : c \in {CH_BACKSLASH, CH_QUOTE}, n \in {CHUNK, CHUNK + 1}}

Inputs ==
    ({h \o Pad(pp[1]) \o w \o Pad(pp[2]) : h \in Heads, w \in Words,
                                            pp \in PadPairs}
        \cup Singles \cup Fills) \ {<<>>}

Args(nulls, len, max) ==
    [ctx_null        |-> "ctx" \in nulls,
     input_null      |-> "input" \in nulls,
     positions_null  |-> "positions" \in nulls,
     characters_null |-> "characters" \in nulls,
     input_len       |-> len,
     max_output      |-> max]

NullSets == {{"ctx"}, {"input"}, {"positions"}, {"characters"},
             {"ctx", "input", "positions", "characters"}}

ShortInputs == {w \in Words : Len(w) = 1}

\* What a caller may pass: the bytes behind input (none behind a null
\* pointer) and the argument record.  input_len is the length of the
\* bytes, also when another argument is null; a zero input_len comes with
\* a non-null pointer to no bytes.
Calls ==
    {[mem |-> mem, a |-> Args({}, Len(mem), max)] :
        mem \in Inputs, max \in 0 .. MaxOutSmall}
    \cup {[mem |-> mem, a |-> Args({}, Len(mem), Len(mem))] : mem \in Inputs}
    \cup {[mem |-> IF "input" \in nulls THEN <<>> ELSE mem,
           a   |-> Args(nulls, Len(mem), max)] :
            nulls \in NullSets, mem \in ShortInputs, max \in {0, 1}}
    \cup {[mem |-> <<>>, a |-> Args({}, 0, max)] : max \in {0, 1}}

\* neon_json_init: calloc of the context
neon_json_init == [quote_bits |-> 0, string_mask |-> 0, buffer_capacity |-> 0]

\* no neon_json_classify call made yet
NoClassify == [called |-> FALSE, input |-> <<>>, len |-> 0,
               input_null |-> FALSE, output_null |-> FALSE,
               output |-> <<>>, ret |-> 0]

\* What a caller may pass to neon_json_classify: every byte value alone,
\* words of the indexer's alphabet, null pointers and a zero length.
ClassifyCalls ==
    {[mem |-> mem, input_null |-> FALSE, output_null |-> FALSE, len |-> Len(mem)] :
        mem \in {<<b>> : b \in 0 .. 255} \cup Words}
    \cup {[mem |-> IF n[1] THEN <<>> ELSE mem, input_null |-> n[1],
           output_null |-> n[2], len |-> Len(mem)] :
            n \in {<<TRUE, FALSE>>, <<FALSE, TRUE>>, <<TRUE, TRUE>>},
            mem \in ShortInputs}

Init ==
    /\ ctx = neon_json_init
    /\ args = Args({}, 0, 0)
    /\ input = <<>>
    /\ pc = "idle"
    /\ loc = InitLoc
    /\ positions = <<>>
    /\ characters = <<>>
    /\ ret = 0
    /\ loads = NoLoad
    /\ cls = NoClassify

Machine == [pc |-> pc, loc |-> loc, positions |-> positions,
            characters |-> characters, ret |-> ret, loads |-> loads]

Become(m) ==
    /\ pc' = m.pc
    /\ loc' = m.loc
    /\ positions' = m.positions
    /\ characters' = m.characters
    /\ ret' = m.ret
    /\ loads' = m.loads

\* The caller has taken the result of the last call; its next call passes
\* fresh arguments and arrays.  Only the context lives on between calls.
CallerResumes ==
    /\ pc = "done"
    /\ Become([entry EXCEPT !.pc = "idle"])
    /\ args' = Args({}, 0, 0)
    /\ input' = <<>>
    /\ UNCHANGED <<ctx, cls>>

\* A call whose in-string state comes from the context instead of being
\* initialised: 0 on a fresh context, 1 on one an earlier call has used.
CallValid_state_from_context ==
    /\ pc = "idle"
    /\ \E c \in Calls :
          /\ ~BadArgs(c.a)
          /\ input' = c.mem
          /\ args' = c.a
          /\ ctx' = ensure_buffers(ctx, c.a.input_len)
    /\ Become([entry EXCEPT !.loc.prev_string_state =
                                IF ctx.buffer_capacity > 0 THEN 1 ELSE 0])
    /\ UNCHANGED cls

\* neon_json_find_structural with arguments that pass the check of line 202:
\* ensure_buffers and the initialisation of the locals (lines 206-212).
\* The caller's arrays hold nothing written by this call yet.
CallValid ==
    /\ pc = "idle"
    /\ \E c \in Calls :
          /\ ~BadArgs(c.a)
          /\ input' = c.mem
          /\ args' = c.a
          /\ ctx' = ensure_buffers(ctx, c.a.input_len)
    /\ Become(entry)
    /\ UNCHANGED cls

\* neon_json_find_structural with arguments that fail the check of line 202:
\* return -1 (line 203).
CallInvalid ==
    /\ pc = "idle"
    /\ \E c \in Calls :
          /\ BadArgs(c.a)
          /\ input' = c.mem
          /\ args' = c.a
    /\ pc' = "done"
    /\ ret' = -1
    /\ UNCHANGED <<ctx, loc, positions, characters, loads, cls>>

ChunkLoop ==
    /\ pc = "chunk_loop"
    /\ Become(chunk_loop(Machine, args, input))
    /\ UNCHANGED <<ctx, args, input, cls>>

OddBsLoop ==
    /\ pc = "odd_bs"
    /\ Become(odd_bs_loop(Machine))
    /\ UNCHANGED <<ctx, args, input, cls>>

ExtractLoop ==
    /\ pc = "extract"
    /\ Become(extract_loop(Machine, args, input))
    /\ UNCHANGED <<ctx, args, input, cls>>

TailLoop ==
    /\ pc = "tail"
    /\ Become(tail_loop(Machine, args, input))
    /\ UNCHANGED <<ctx, args, input, cls>>

\* A neon_json_classify call, from its entry to its return.
Classify ==
    /\ \E c \in ClassifyCalls :
          LET r == neon_json_classify(c.mem, c.input_null, c.output_null, c.len)
          IN  cls' = [called |-> TRUE, input |-> c.mem, len |-> c.len,
                      input_null |-> c.input_null, output_null |-> c.output_null,
                      output |-> r.output, ret |-> r.ret]
    /\ UNCHANGED <<ctx, args, input, pc, loc, positions, characters, ret, loads>>

Next ==
    \/ CallerResumes
    \/ CallValid
    \/ CallInvalid
    \/ ChunkLoop
    \/ OddBsLoop
    \/ ExtractLoop
    \/ TailLoop

Spec == Init /\ [][Next]_vars

\* The calls of neon_json_classify, which shares no state with the indexer.
NextClassify == Classify

SpecClassify == Init /\ [][NextClassify]_vars

-----------------------------------------------------------------------------
(* Properties.  The notions they use (escaped, inside a string, the code   *)
(* of a byte) are stated here from their definitions, independently of the *)
(* operators above.                                                        *)

Emitted == {positions[j] : j \in DOMAIN positions}

\* the call returned a count (it passed the argument check)
Counted == pc = "done" /\ ret # -1

\* max_output >= N
Roomy == args.max_output >= args.input_len

Min(x, y) == IF x <= y THEN x ELSE y

\* length of the maximal run of backslashes ending at offset p - 1 of mem
RunBefore(mem, p) ==
    CHOOSE n \in 0 .. p :
        /\ \A j \in 1 .. n : mem[p - j + 1] = 92
        /\ n = p \/ mem[p - n] # 92

UnescapedQuoteAt(mem, p) == mem[p + 1] = 34 /\ RunBefore(mem, p) % 2 = 0

\* offset p lies inside a string: an odd number of unescaped quotes before it
InsideString(mem, p) ==
    Cardinality({q \in 0 .. (p - 1) : UnescapedQuoteAt(mem, q)}) % 2 = 1

\* { } [ ] : ,
SixStructurals == {123, 125, 91, 93, 58, 44}

\* C3: the positions written so far are strictly increasing, at every step
\* of the chunk loop and of the scalar tail and for every max_output.
C3_PositionsIncreasing ==
    \A j \in DOMAIN positions :
        (j + 1) \in DOMAIN positions => positions[j] < positions[j + 1]

\* a call that wrote an entry in the chunk loop and the next one in the tail
C3_Witness ==
    /\ Counted
    /\ args.input_len > 64
    /\ \E j \in DOMAIN positions :
          /\ (j + 1) \in DOMAIN positions
          /\ positions[j] < 64 * (args.input_len \div 64)
          /\ positions[j + 1] >= 64 * (args.input_len \div 64)

\* C4: the entries written are those of indices 0 .. count-1, and each pair
\* is an offset below input_len with the input byte at that offset.
C4_Consistent ==
    /\ DOMAIN positions = 0 .. (loc.count - 1)
    /\ DOMAIN characters = 0 .. (loc.count - 1)
    /\ \A j \in DOMAIN positions :
          /\ positions[j] >= 0
          /\ positions[j] < args.input_len
          /\ characters[j] = input[positions[j] + 1]

\* a returned call with entries from the second chunk and from the tail
C4_Witness ==
    /\ Counted
    /\ ret >= 2
    /\ args.input_len > 128
    /\ \E j \in DOMAIN positions : positions[j] \in 64 .. 127
    /\ \E j \in DOMAIN positions : positions[j] >= 128

\* C5: on an input without quote and without backslash, with max_output >= N,
\* the positions emitted are exactly the offsets of the bytes { } [ ] , :
C5_QuoteFreeComplete ==
    (/\ Counted
     /\ Roomy
     /\ \A k \in 1 .. Len(input) : input[k] # 34 /\ input[k] # 92)
    => /\ Emitted = {p \in 0 .. (args.input_len - 1) : input[p + 1] \in SixStructurals}
       /\ ret = Cardinality(Emitted)

\* such an input longer than 64 bytes, with a structural byte in the chunk
\* and one in the tail
C5_Witness ==
    /\ Counted
    /\ Roomy
    /\ args.input_len > 64
    /\ \A k \in 1 .. Len(input) : input[k] # 34 /\ input[k] # 92
    /\ \E p \in Emitted : p < 64
    /\ \E p \in Emitted : p >= 64 * (args.input_len \div 64)

\* the result of the call on mem with a capacity that never fills
Unlimited(mem) == run(entry, Args({}, Len(mem), Len(mem) + 1), mem)

\* C8: no entry is written at an index >= max_output; the call returns
\* min(max_output, F) and has written the first min(max_output, F) entries of
\* the result with unlimited capacity, F being the count of that result.
C8_Truncation ==
    /\ \A j \in (DOMAIN positions) \cup (DOMAIN characters) : j < args.max_output
    /\ Counted =>
          LET full == Unlimited(input)
              n    == Min(args.max_output, full.ret)
          IN  /\ ret = n
              /\ positions = [j \in 0 .. (n - 1) |-> full.positions[j]]
              /\ characters = [j \in 0 .. (n - 1) |-> full.characters[j]]

\* a call cut short inside a chunk: the capacity filled while bits of the
\* chunk's mask were still to be extracted
C8_Witness ==
    /\ Counted
    /\ ret = args.max_output
    /\ ret >= 1
    /\ loc.filtered # {}
    /\ Unlimited(input).ret > ret

\* C7 names the arguments that make the call fail
ArgumentError(a) ==
    \/ a.ctx_null \/ a.input_null \/ a.positions_null \/ a.characters_null
    \/ a.input_len = 0

\* C7: the call returns -1 exactly when an argument is null or input_len is
\* 0, and a count >= 0 otherwise; a call that returns -1 changes neither the
\* output arrays nor the context.
C7_ArgumentErrors ==
    /\ [](pc = "done" => /\ ret = -1 <=> ArgumentError(args)
                         /\ ret >= -1)
    /\ [][(pc' = "done" /\ ret' = -1)
            => /\ positions' = positions
               /\ characters' = characters
               /\ ctx' = ctx]_vars

\* a call with only the characters pointer null, on a context that an
\* earlier call has given buffers
C7_Witness ==
    /\ pc = "done"
    /\ ret = -1
    /\ args.characters_null
    /\ ~args.ctx_null /\ ~args.input_null /\ ~args.positions_null
    /\ args.input_len > 0
    /\ ctx.buffer_capacity > 0


\* C1: with max_output >= N, a byte { } [ ] : , at offset p is emitted iff p
\* is not inside a string (an even number of unescaped quotes before p),
\* in the chunks and in the tail alike.
C1_StructuralIffOutsideString ==
    (Counted /\ Roomy) =>
        \A p \in 0 .. (args.input_len - 1) :
            input[p + 1] \in SixStructurals =>
                (p \in Emitted <=> ~InsideString(input, p))

\* C2: with max_output >= N, a quote at offset p is emitted iff the run of
\* backslashes ending at p - 1 has even length.
C2_QuoteIffUnescaped ==
    (Counted /\ Roomy) =>
        \A p \in 0 .. (args.input_len - 1) :
            input[p + 1] = 34 =>
                (p \in Emitted <=> RunBefore(input, p) % 2 = 0)

SHIM == 32

InsertShim(mem, q) ==
    SubSeq(mem, 1, q) \o <<SHIM>> \o SubSeq(mem, q + 1, Len(mem))

\* C6: a shim byte inserted at an offset q outside strings leaves the count
\* and the characters unchanged and adds 1 to every emitted position >= q.
C6_ShimInvariance ==
    Counted =>
        \A q \in 0 .. args.input_len :
            ~InsideString(input, q) =>
                LET r == run(entry,
                             Args({}, args.input_len + 1, args.max_output),
                             InsertShim(input, q))
                IN  /\ r.ret = ret
                    /\ r.characters = characters
                    /\ r.positions =
                           [j \in DOMAIN positions |->
                               IF positions[j] >= q THEN positions[j] + 1
                               ELSE positions[j]]

\* the code C9 gives each byte value
CodeOf(b) ==
    CASE b \in {32, 9, 10, 13} -> 0
      [] b = 123 -> 1
      [] b = 125 -> 2
      [] b = 91  -> 3
      [] b = 93  -> 4
      [] b = 34  -> 5
      [] b = 58  -> 6
      [] b = 44  -> 7
      [] b = 92  -> 8
      [] OTHER   -> 9

\* C9: with non-null pointers and len >= 1 neon_json_classify returns 0 and
\* output[i] is the code of input[i] for every i < len; otherwise it returns
\* -1 and writes nothing.
C9_Classify ==
    cls.called =>
        IF cls.input_null \/ cls.output_null \/ cls.len = 0
        THEN cls.ret = -1 /\ cls.output = <<>>
        ELSE /\ cls.ret = 0
             /\ DOMAIN cls.output = 0 .. (cls.len - 1)
             /\ \A i \in 0 .. (cls.len - 1) :
                   cls.output[i] = CodeOf(cls.input[i + 1])

\* a two-byte call: a quote, then a backslash
C9_Witness ==
    /\ cls.called
    /\ cls.ret = 0
    /\ cls.input = <<34, 92>>
    /\ cls.output[0] = 5
    /\ cls.output[1] = 8

\* A measure of the work a call has left: four units for each byte from i
\* on, plus what is left of the current chunk iteration (its head, the run
\* enumeration with the bits of seq, the extraction with the bits of
\* filtered) or one unit for the return of the tail loop.
Measure(at, l, a) ==
    CASE at = "chunk_loop" -> 4 * (a.input_len - l.i) + 200
      [] at = "odd_bs"     -> 4 * (a.input_len - l.i) + 100 + Cardinality(l.seq)
      [] at = "extract"    -> 4 * (a.input_len - l.i) + 2 + Cardinality(l.filtered)
      [] at = "tail"       -> 4 * (a.input_len - l.i) + 1
      [] OTHER             -> 0

InCall == pc \notin {"idle", "done"}

\* C10: the call terminates on every input.  In every state inside a call
\* the next step changes the state, and every step inside a call strictly
\* decreases a measure that is never negative; in particular the chunk loop
\* advances i by 64, the tail loop by 1, the extraction loop clears exactly
\* one bit of filtered, and the run enumeration of
\* find_odd_backslash_sequences clears at least one bit of seq.
C10_Terminates ==
    /\ [](InCall => /\ step(Machine, args, input) # Machine
                    /\ Measure(pc, loc, args) > 0)
    /\ [][InCall =>
            /\ Measure(pc', loc', args') < Measure(pc, loc, args)
            /\ Measure(pc', loc', args') >= 0
            /\ (pc = "extract" /\ pc' = "chunk_loop") => loc'.i = loc.i + 64
            /\ (pc = "tail" /\ pc' = "tail") => loc'.i = loc.i + 1
            /\ (pc = "extract" /\ pc' = "extract")
                  => /\ loc'.filtered \subseteq loc.filtered
                     /\ Cardinality(loc'.filtered) = Cardinality(loc.filtered) - 1
            /\ (pc = "odd_bs" /\ pc' = "odd_bs")
                  => /\ loc'.seq \subseteq loc.seq
                     /\ loc'.seq # loc.seq]_vars

\* the call on a chunk of 64 backslashes has returned
C10_Witness ==
    /\ Counted
    /\ input = [k \in 1 .. 64 |-> 92]
    /\ loc.backslashes = 0 .. 63
    /\ ret = 0


\* C11: every read of the input is at offsets inside [0, input_len).  loads
\* is the half-open range of offsets the step just taken read: a chunk load
\* is the 64 bytes from i and was made with i + 64 <= input_len, a read of
\* the extraction loop or of the tail is one byte below input_len.
C11_ReadsInBounds ==
    (loads # NoLoad) =>
        /\ 0 <= loads[1]
        /\ loads[1] < loads[2]
        /\ loads[2] <= args.input_len
        /\ loads[2] <= Len(input)
        /\ \/ loads[2] = loads[1] + 1
           \/ /\ loads[2] = loads[1] + 64
              /\ loads[1] % 64 = 0

\* The chunk load that ends at the last byte of a 128-byte input.
C11_Witness ==
    /\ args.input_len = 128
    /\ loads = <<64, 128>>
    /\ pc \in {"extract", "odd_bs"}


\* ceil(n / 64), from its definition
CeilChunks(n) == CHOOSE k \in 0 .. n : 64 * k >= n /\ 64 * (k - 1) < n

\* a step that enters neon_json_find_structural with arguments passing the
\* validation
ValidCallStep == pc = "idle" /\ pc' # "idle" /\ ret' # -1

\* C12: on one context the scratch capacity starts at 0 and never decreases;
\* a call that passes validation with length N leaves it at the larger of
\* the capacity before and ceil(N/64) (hence at the maximum of ceil(N/64)
\* over the valid calls so far), and the buffers change only in such a call
\* with ceil(N/64) above the capacity; no other step touches the context.
C12_CapacityMonotone ==
    /\ ctx = [quote_bits |-> 0, string_mask |-> 0, buffer_capacity |-> 0]
    /\ [][/\ ctx'.buffer_capacity >= ctx.buffer_capacity
          /\ ValidCallStep =>
                LET need == CeilChunks(args'.input_len)
                IN  /\ ctx'.buffer_capacity =
                           IF need > ctx.buffer_capacity THEN need
                           ELSE ctx.buffer_capacity
                    /\ (ctx' # ctx) <=> (need > ctx.buffer_capacity)
                    /\ ctx'.quote_bits = ctx'.buffer_capacity
                    /\ ctx'.string_mask = ctx'.buffer_capacity
          /\ ~ValidCallStep => ctx' = ctx]_vars

\* A one-chunk call has returned on a context that an earlier call grew to
\* three chunks.
C12_Witness ==
    /\ Counted
    /\ args.input_len <= 64
    /\ ctx.buffer_capacity = 3


\* a step that computes the masks of a chunk (lines 219-234)
MaskStep == pc \in {"chunk_loop", "odd_bs"} /\ pc' = "extract"

\* C13: the in-string carry a chunk hands on equals the carry it received
\* XOR the parity of its unescaped quotes (as the code computed them); so a
\* chunk with an even number of quotes hands on the carry it received.
C13_CarryXorParity ==
    [][MaskStep =>
         loc'.prev_string_state =
             (loc.prev_string_state + Cardinality(loc'.unescaped_quotes)) % 2]_vars


\* bit b of a chunk lies inside a string, given the carry the chunk received
\* and its unescaped quotes: an odd number of quote toggles before b
InsideInChunk(carry, uq, b) ==
    (carry + Cardinality({q \in uq : q < b})) % 2 = 1

\* C14: in the string mask of a chunk (prefix_xor of the unescaped quotes,
\* complemented when the carry received is 1) the bit of every unescaped
\* quote, opening or closing, is 0, and the bit of every byte strictly
\* between an opening quote and its closing quote is 1.
C14_HalfOpenMask ==
    [][MaskStep =>
         \A b \in 0 .. 63 :
            /\ b \in loc'.unescaped_quotes => b \notin loc'.string_mask
            /\ (b \notin loc'.unescaped_quotes
                /\ InsideInChunk(loc.prev_string_state, loc'.unescaped_quotes, b))
                   => b \in loc'.string_mask]_vars


\* the call made on a freshly initialised context, run to its return
OnFreshContext(a, mem) ==
    IF a.ctx_null \/ a.input_null \/ a.input_len = 0
       \/ a.positions_null \/ a.characters_null
    THEN [ret |-> -1, positions |-> <<>>, characters |-> <<>>]
    ELSE LET m == run(entry, a, mem)
         IN  [ret |-> m.ret, positions |-> m.positions,
              characters |-> m.characters]

\* C15: whatever calls the context has served before, a call returns the
\* count and has written the positions and characters that the same
\* (input, input_len, max_output) gives on a freshly initialised context.
C15_HistoryIndependent ==
    (pc = "done") =>
        LET fresh == OnFreshContext(args, input)
        IN  /\ ret = fresh.ret
            /\ positions = fresh.positions
            /\ characters = fresh.characters

\* A call that emitted something has returned on a context that an earlier,
\* longer call grew.
C15_Witness ==
    /\ Counted
    /\ ret >= 1
    /\ ctx.buffer_capacity > CeilChunks(args.input_len)
    /\ loc.in_string = 1

=============================================================================
